---- MODULE Spec2Model ----
(***************************************************************************)
(* Model of the PRISM documentation sources:                               *)
(*   docs/source/user/scripts/line_link.py  (the LineLink adapter)         *)
(*   docs/source/conf.py                    (the Sphinx configuration)     *)
(*                                                                         *)
(* Numbers.  A Python/NumPy number is a record [t, v]: t is its type       *)
(* ("int", "float", or "str" for a non-numeric value) and v its value in   *)
(* units of 1/Scale.  All numeric inputs drawn below are multiples of 0.5  *)
(* of small magnitude, for which IEEE-754 double arithmetic is exact, so   *)
(* fixed-point arithmetic computes what the floating-point code computes.  *)
(***************************************************************************)
EXTENDS Integers, Sequences, FiniteSets, TLC

\* 1e-4, the smallest literal of line_link.py, is one unit.
Scale == 10000

\* Longest coordinate sequence an evaluation request carries.
MaxLen == 3

\* The iteration indices (emul_i) a request carries.
EmulIs == {1, 2}

IntN(n) == [t |-> "int", v |-> n * Scale]
Flt(units) == [t |-> "float", v |-> units]
StrV == [t |-> "str", v |-> 0]

IsNumeric(x) == x.t \in {"int", "float"}

\* ------------------------------------------------------------------------
\* NumPy, as far as line_link.py uses it.  An array is [dtype, data].

RECURSIVE AnyOfType(_, _)
AnyOfType(list, t) ==
  IF list = <<>> THEN FALSE
  ELSE Head(list).t = t \/ AnyOfType(Tail(list), t)

\* dtype resolution of np.array(list): a string makes the whole array a
\* string array, otherwise a float makes it float64, an empty list is
\* float64, and a list of ints is an integer array.
ResultDtype(list) ==
  IF AnyOfType(list, "str") THEN "str"
  ELSE IF list = <<>> \/ AnyOfType(list, "float") THEN "float"
  ELSE "int"

\* np.array(list): a NEW array object holding the converted elements.
np_array(list) ==
  LET dt == ResultDtype(list)
  IN [dtype |-> dt,
      data |-> [i \in 1..Len(list) |-> IF dt = "str" THEN 0 ELSE list[i].v]]

\* np.ones_like(list): ones of the dtype np.array(list) has.
np_ones_like(list) ==
  LET a == np_array(list)
  IN [dtype |-> a.dtype,
      data |-> [i \in 1..Len(list) |-> IF a.dtype = "str" THEN 0 ELSE Scale]]

Promote(t1, t2) == IF t1 = "float" \/ t2 = "float" THEN "float" ELSE "int"

\* The outcome of an expression: a value (an array) or a raised exception.
Value(dt, data) == [kind |-> "value", exc |-> "", dtype |-> dt, data |-> data]
Raise(e) == [kind |-> "raise", exc |-> e, dtype |-> "", data |-> <<>>]
NoRet == [kind |-> "none", exc |-> "", dtype |-> "", data |-> <<>>]

\* array * scalar (ufunc multiply): no loop for a string operand, whatever
\* the length of the array.
np_multiply(arr, s) ==
  IF arr.dtype = "str" \/ s.t = "str" THEN Raise("TypeError")
  ELSE Value(Promote(arr.dtype, s.t),
             [i \in 1..Len(arr.data) |-> (arr.data[i] * s.v) \div Scale])

\* scalar + array (ufunc add, through ndarray.__radd__).
np_add(s, arr) ==
  IF arr.dtype = "str" \/ s.t = "str" THEN Raise("TypeError")
  ELSE Value(Promote(arr.dtype, s.t),
             [i \in 1..Len(arr.data) |-> s.v + arr.data[i]])

\* ------------------------------------------------------------------------
\* LineLink.  A dict is the sequence of its entries [k, v] in insertion
\* order; a list is a sequence of numbers.

Entry(k, v) == [k |-> k, v |-> v]

Keys(dict) == [i \in 1..Len(dict) |-> dict[i].k]

\* The adapter's attributes are what ModelLink.__init__ makes of the
\* arguments LineLink.__init__ forwards to it: LineLink adds none of its own.
SelfStates == {[init_args |-> "none"], [init_args |-> "custom"]}

\* LineLink(): built without arguments.
LineLink__init__ == [init_args |-> "none"]

VARIABLES
  self,       \* the adapter's attributes, as left by __init__
  held_par,   \* the mapping the caller got from get_default_model_parameters
  held_data,  \* the mapping the caller got from get_default_model_data
  req,        \* TRUE while the framework holds an evaluation request
  emul_i,     \* the request's iteration index
  par_set,    \* the request's parameter assignment (name -> number)
  data_idx,   \* the request's coordinate list
  op,         \* the operation that ran last
  ret,        \* what the last call_model / get_md_var ended in
  conf_pc,    \* conf.py: index of the next statement to execute
  conf_ns,    \* conf.py: the module namespace (name -> value)
  conf_exc    \* conf.py: the exception that ended the evaluation, or ""

linkvars == <<self, held_par, held_data, req, emul_i, par_set, data_idx, op, ret>>
confvars == <<conf_pc, conf_ns, conf_exc>>
vars == <<self, held_par, held_data, req, emul_i, par_set, data_idx, op, ret,
          conf_pc, conf_ns, conf_exc>>

\* Variant: the estimate and the upper bound of 'A' written in each other's
\* place.
get_default_model_parameters_swapped(slf) ==
  << Entry("A", <<IntN(-10), IntN(3), IntN(10)>>),
     Entry("B", <<IntN(0), IntN(5), Flt(15000)>>) >>

\* Variant: one dict object shared by all calls (a class attribute), so a
\* caller's write shows in the next call's result.
get_default_model_parameters_shared(slf) ==
  IF held_par # <<>> THEN held_par
  ELSE << Entry("A", <<IntN(-10), IntN(10), IntN(3)>>),
          Entry("B", <<IntN(0), IntN(5), Flt(15000)>>) >>

\* get_default_model_parameters: a dict literal, built anew by every call.
get_default_model_parameters(slf) ==
  LET par_dict == <<
        Entry("A", <<IntN(-10), IntN(10), IntN(3)>>),
        Entry("B", <<IntN(0), IntN(5), Flt(15000)>>) >>
  IN par_dict

\* Variant: a sign slip in the uncertainty of the last entry.
get_default_model_data_negative(slf) ==
  << Entry(IntN(1), <<Flt(45000), Flt(1000)>>),
     Entry(Flt(25000), <<Flt(68000), Flt(1000)>>),
     Entry(IntN(-2), <<IntN(0), Flt(-1000)>>) >>

\* Variant: f(2.5) observed as 7.0 instead of 6.8.
get_default_model_data_shifted(slf) ==
  << Entry(IntN(1), <<Flt(45000), Flt(1000)>>),
     Entry(Flt(25000), <<Flt(70000), Flt(1000)>>),
     Entry(IntN(-2), <<IntN(0), Flt(1000)>>) >>

\* get_default_model_data: a dict literal, built anew by every call.
get_default_model_data(slf) ==
  LET data_dict == <<
        Entry(IntN(1), <<Flt(45000), Flt(1000)>>),
        Entry(Flt(25000), <<Flt(68000), Flt(1000)>>),
        Entry(IntN(-2), <<IntN(0), Flt(1000)>>) >>
  IN data_dict

\* What a method call leaves behind: its outcome and the objects it was
\* handed by reference (the adapter, the dict, the list).
Effect(r, slf, ps, di) == [ret |-> r, self |-> slf, par_set |-> ps, data_idx |-> di]

\* Variant: intercept and slope exchanged, par_set['B'] + x * par_set['A'].
call_model_swapped(slf, e, ps, di) ==
  IF "B" \notin DOMAIN ps THEN Effect(Raise("KeyError"), slf, ps, di)
  ELSE LET arr == np_array(di)
       IN IF "A" \notin DOMAIN ps THEN Effect(Raise("KeyError"), slf, ps, di)
          ELSE LET prod == np_multiply(arr, ps["A"])
               IN IF prod.kind = "raise" THEN Effect(prod, slf, ps, di)
                  ELSE Effect(np_add(ps["B"], prod), slf, ps, di)

\* Variant: the line computed in place, in the caller's coordinate object
\* (vals = data_idx; vals *= B; vals += A), instead of in a copy.
call_model_inplace(slf, e, ps, di) ==
  IF "A" \notin DOMAIN ps THEN Effect(Raise("KeyError"), slf, ps, di)
  ELSE LET arr == np_array(di)
       IN IF "B" \notin DOMAIN ps THEN Effect(Raise("KeyError"), slf, ps, di)
          ELSE LET prod == np_multiply(arr, ps["B"])
                   sum == np_add(ps["A"], prod)
               IN IF prod.kind = "raise" THEN Effect(prod, slf, ps, di)
                  ELSE IF sum.kind = "raise" THEN Effect(sum, slf, ps, di)
                  ELSE Effect(sum, slf, ps,
                              [i \in 1..Len(di) |-> [t |-> sum.dtype, v |-> sum.data[i]]])

\* Variant: the iteration index used as an offset of the intercept.
call_model_iteration(slf, e, ps, di) ==
  IF "A" \notin DOMAIN ps THEN Effect(Raise("KeyError"), slf, ps, di)
  ELSE LET arr == np_array(di)
       IN IF "B" \notin DOMAIN ps THEN Effect(Raise("KeyError"), slf, ps, di)
          ELSE LET prod == np_multiply(arr, ps["B"])
                   sum == np_add(ps["A"], prod)
               IN IF prod.kind = "raise" THEN Effect(prod, slf, ps, di)
                  ELSE IF sum.kind = "raise" THEN Effect(sum, slf, ps, di)
                  ELSE Effect(Value(sum.dtype,
                                    [i \in 1..Len(di) |-> sum.data[i] + e * Scale]),
                              slf, ps, di)

\* Variant: every exception caught and an empty result returned instead.
call_model_swallow(slf, e, ps, di) ==
  IF "A" \notin DOMAIN ps THEN Effect(Value("float", <<>>), slf, ps, di)
  ELSE LET arr == np_array(di)
       IN IF "B" \notin DOMAIN ps THEN Effect(Value("float", <<>>), slf, ps, di)
          ELSE LET prod == np_multiply(arr, ps["B"])
                   sum == np_add(ps["A"], prod)
               IN IF prod.kind = "raise" \/ sum.kind = "raise"
                  THEN Effect(Value("float", <<>>), slf, ps, di)
                  ELSE Effect(sum, slf, ps, di)

\* call_model: vals = par_set['A'] + np.array(data_idx) * par_set['B'],
\* operands evaluated left to right; the first exception ends the call.
call_model(slf, e, ps, di) ==
  IF "A" \notin DOMAIN ps THEN Effect(Raise("KeyError"), slf, ps, di)
  ELSE LET arr == np_array(di)
       IN IF "B" \notin DOMAIN ps THEN Effect(Raise("KeyError"), slf, ps, di)
          ELSE LET prod == np_multiply(arr, ps["B"])
               IN IF prod.kind = "raise" THEN Effect(prod, slf, ps, di)
                  ELSE Effect(np_add(ps["A"], prod), slf, ps, di)

\* Variant: np.full_like(data_idx, 1e-4), which keeps the dtype of the
\* coordinates and so truncates 1e-4 to 0 in an integer array.
get_md_var_full_like(slf, e, ps, di) ==
  LET ones == np_ones_like(di)
  IN IF ones.dtype = "str" THEN Effect(Raise("TypeError"), slf, ps, di)
     ELSE Effect(Value(ones.dtype,
                       [i \in 1..Len(di) |-> IF ones.dtype = "int" THEN 0 ELSE 1]),
                 slf, ps, di)

\* get_md_var: 1e-4 * np.ones_like(data_idx).
get_md_var(slf, e, ps, di) ==
  Effect(np_multiply(np_ones_like(di), Flt(1)), slf, ps, di)

\* ------------------------------------------------------------------------
\* The framework around the adapter.

AValues == {IntN(3), Flt(-15000), StrV}
BValues == {Flt(15000), IntN(2), StrV}
CValues == {IntN(7)}
Coordinates == {IntN(1), Flt(25000), IntN(-2), StrV}

RECURSIVE SeqsUpTo(_, _)
SeqsUpTo(S, n) ==
  IF n = 0 THEN {<<>>}
  ELSE LET shorter == SeqsUpTo(S, n - 1)
       IN shorter \cup {Append(s, x) : s \in {t \in shorter : Len(t) = n - 1}, x \in S}

\* Parameter assignments: any of A, B and a third entry C may be missing.
ParSets ==
  UNION {[D -> AValues \cup BValues \cup CValues] : D \in SUBSET {"A", "B", "C"}}

WellTyped(ps) ==
  /\ "A" \in DOMAIN ps => ps["A"] \in AValues
  /\ "B" \in DOMAIN ps => ps["B"] \in BValues
  /\ "C" \in DOMAIN ps => ps["C"] \in CValues

RequestParSets == {p \in ParSets : WellTyped(p)}

NoParSet == [x \in {} |-> StrV]

InitLink ==
  /\ self = LineLink__init__
  /\ held_par = <<>>
  /\ held_data = <<>>
  /\ req = FALSE
  /\ emul_i = 0
  /\ par_set = NoParSet
  /\ data_idx = <<>>
  /\ op = "init"
  /\ ret = NoRet

GetDefaultModelParameters ==
  /\ ~req
  /\ held_par' = get_default_model_parameters(self)
  /\ op' = "get_default_model_parameters"
  /\ UNCHANGED <<self, held_data, req, emul_i, par_set, data_idx, ret>>
  /\ UNCHANGED confvars

GetDefaultModelData ==
  /\ ~req
  /\ held_data' = get_default_model_data(self)
  /\ op' = "get_default_model_data"
  /\ UNCHANGED <<self, held_par, req, emul_i, par_set, data_idx, ret>>
  /\ UNCHANGED confvars

\* The caller writes into a mapping it was handed: an estimate outside its
\* bounds, a negative uncertainty.
MutatePar ==
  /\ ~req
  /\ held_par # <<>>
  /\ held_par' = [held_par EXCEPT ![1].v = <<IntN(0), IntN(1), IntN(99)>>]
  /\ op' = "mutate"
  /\ UNCHANGED <<self, held_data, req, emul_i, par_set, data_idx, ret>>
  /\ UNCHANGED confvars

MutateData ==
  /\ ~req
  /\ held_data # <<>>
  /\ held_data' = [held_data EXCEPT ![1].v = <<IntN(50), Flt(-1000)>>]
  /\ op' = "mutate"
  /\ UNCHANGED <<self, held_par, req, emul_i, par_set, data_idx, ret>>
  /\ UNCHANGED confvars

\* The framework builds an evaluation request.
Request ==
  /\ ~req
  /\ \E e \in EmulIs, ps \in RequestParSets,
        di \in SeqsUpTo(Coordinates, MaxLen) :
       /\ emul_i' = e
       /\ par_set' = ps
       /\ data_idx' = di
  /\ req' = TRUE
  /\ op' = "request"
  /\ ret' = NoRet
  /\ UNCHANGED <<self, held_par, held_data>>
  /\ UNCHANGED confvars

CallModel ==
  /\ req
  /\ LET eff == call_model(self, emul_i, par_set, data_idx)
     IN /\ ret' = eff.ret
        /\ self' = eff.self
        /\ par_set' = eff.par_set
        /\ data_idx' = eff.data_idx
  /\ op' = "call_model"
  /\ UNCHANGED <<held_par, held_data, req, emul_i>>
  /\ UNCHANGED confvars

GetMdVar ==
  /\ req
  /\ LET eff == get_md_var(self, emul_i, par_set, data_idx)
     IN /\ ret' = eff.ret
        /\ self' = eff.self
        /\ par_set' = eff.par_set
        /\ data_idx' = eff.data_idx
  /\ op' = "get_md_var"
  /\ UNCHANGED <<held_par, held_data, req, emul_i>>
  /\ UNCHANGED confvars

\* The framework is done with the request and drops it.
Release ==
  /\ req
  /\ op \in {"call_model", "get_md_var"}
  /\ req' = FALSE
  /\ emul_i' = 0
  /\ par_set' = NoParSet
  /\ data_idx' = <<>>
  /\ ret' = NoRet
  /\ op' = "release"
  /\ UNCHANGED <<self, held_par, held_data>>
  /\ UNCHANGED confvars

\* ------------------------------------------------------------------------
\* conf.py.  A string is the sequence of its pieces, "%s" being a conversion
\* specifier; a value is the sequence of its items (one item for a string,
\* several for a tuple or list).

Lit(str) == [ref |-> FALSE, s |-> str]
Ref(name) == [ref |-> TRUE, s |-> name]
Stmt(line, target, kind, parts) ==
  [line |-> line, target |-> target, kind |-> kind, parts |-> parts]
Assign(line, target, str) == Stmt(line, target, "assign", <<Lit(str)>>)

\* The statements of conf.py, top to bottom.
Stmts == <<
  Stmt(15, "os", "import", <<Lit("module os")>>),
  Stmt(16, "sys", "import", <<Lit("module sys")>>),
  Stmt(17, "open", "import", <<Lit("codecs.open")>>),
  Stmt(18, "", "call", <<Ref("sys"), Ref("os"), Lit("../..")>>),
  Assign(23, "project", "PRISM"),
  Assign(24, "copyright", "2019, Ellert van der Velden"),
  Assign(25, "author", "Ellert van der Velden"),
  Assign(28, "version", "latest"),
  Stmt(30, "", "exec", <<Ref("open"), Lit("../../prism/__version__.py")>>),
  Stmt(31, "release", "name", <<Ref("prism_version")>>),
  Assign(38, "needs_sphinx", "1.8"),
  Assign(43, "extensions", "sphinx.ext.*"),
  Assign(53, "intersphinx_mapping", "python, numpy, mpi4py, matplotlib, h5py"),
  Assign(60, "autodoc_default_options", "members, private-members"),
  Assign(62, "autodoc_member_order", "groupwise"),
  Assign(63, "autodoc_inherit_docstrings", "False"),
  Assign(66, "napoleon_include_init_with_doc", "True"),
  Assign(67, "napoleon_use_admonition_for_notes", "True"),
  Assign(68, "napoleon_use_ivar", "True"),
  Assign(69, "napoleon_use_param", "False"),
  Assign(70, "napoleon_use_keyword", "False"),
  Assign(71, "napoleon_use_rtype", "False"),
  Assign(72, "napoleon_custom_sections", "Optional, ..."),
  Assign(88, "templates_path", "_templates"),
  Assign(94, "source_suffix", ".rst"),
  Assign(97, "master_doc", "index"),
  Assign(104, "language", "None"),
  Assign(109, "exclude_patterns", "[]"),
  Assign(112, "highlight_language", "default"),
  Assign(113, "pygments_style", "sphinx"),
  Assign(115, "add_function_parentheses", "True"),
  Assign(116, "add_module_names", "True"),
  Assign(117, "show_authors", "True"),
  Assign(118, "numfig", "True"),
  Assign(121, "numfig_format", "Fig., Tab., Lst., Sec."),
  Assign(133, "html_theme", "sphinx_rtd_theme"),
  Assign(139, "html_theme_options", "prev_next_buttons_location, ..."),
  Stmt(148, "html_title", "format",
       <<Lit("%s documentation"), Ref("project"), Ref("release")>>),
  Assign(151, "html_last_updated_fmt", "%a %d %b %Y"),
  Assign(156, "html_static_path", "_static"),
  Assign(159, "html_use_opensearch", "https://prism-tool.readthedocs.io/en/latest"),
  Assign(171, "html_split_index", "True"),
  Assign(173, "html_favicon", "py.png"),
  Assign(175, "html_baseurl", "https://prism-tool.readthedocs.io/en/latest"),
  Assign(177, "html_extra_path", "_static/google3ccf0e77d0aa4c22.html"),
  Assign(183, "htmlhelp_basename", "PRISMdoc"),
  Assign(188, "latex_elements", "{}"),
  Stmt(209, "latex_documents", "tuple",
       <<Ref("master_doc"), Lit("PRISM.tex"), Ref("html_title"), Ref("author"),
         Lit("manual")>>),
  Stmt(219, "man_pages", "tuple",
       <<Ref("master_doc"), Ref("project"), Ref("html_title"), Ref("author"),
         Lit("1")>>),
  Stmt(229, "texinfo_documents", "tuple",
       <<Ref("master_doc"), Ref("project"), Ref("html_title"), Ref("author"),
         Ref("project"),
         Lit("\"Probabilistic Regression Instrument for Simulating Models\""),
         Lit("Miscellaneous")>>) >>

\* The pieces of a string literal: the format of line 148 holds one
\* conversion specifier.
Pieces(str) ==
  IF str = "%s documentation" THEN <<"%s", " documentation">> ELSE <<str>>

\* What ../../prism/__version__.py may define when it is executed.
VersionFiles == {
  [n \in {"prism_version"} |-> <<<<"1.0.0">>>>],
  [n \in {"prism_version"} |-> <<<<"1.1.0">>>>],
  [n \in {"prism_version"} |-> <<<<"1.2.0.dev0">>>>],
  [n \in {"prism_version"} |-> <<<<"2.0.0">>>>],
  [n \in {"__version__"} |-> <<<<"1.0.0">>>>] }

NoFile == [n \in {} |-> <<>>]

Uses(st) == {st.parts[i].s : i \in {j \in 1..Len(st.parts) : st.parts[j].ref}}

\* The item a part denotes: a literal string, or the (first item of the)
\* value a name is bound to.
ItemOf(part, ns) == IF part.ref THEN ns[part.s][1] ELSE Pieces(part.s)

RECURSIVE CountSpecs(_)
CountSpecs(fmt) ==
  IF fmt = <<>> THEN 0
  ELSE (IF Head(fmt) = "%s" THEN 1 ELSE 0) + CountSpecs(Tail(fmt))

RECURSIVE Substitute(_, _)
Substitute(fmt, args) ==
  IF fmt = <<>> THEN <<>>
  ELSE IF Head(fmt) = "%s" THEN Head(args) \o Substitute(Tail(fmt), Tail(args))
  ELSE <<Head(fmt)>> \o Substitute(Tail(fmt), args)

\* fmt % args, args a tuple: Python raises TypeError unless the tuple holds
\* exactly one argument per conversion specifier.
PyFormat(fmt, args) ==
  IF CountSpecs(fmt) # Len(args) THEN [exc |-> "TypeError", val |-> <<>>]
  ELSE [exc |-> "", val |-> Substitute(fmt, args)]

Bind(ns, name, val) ==
  [n \in DOMAIN ns \cup {name} |-> IF n = name THEN val ELSE ns[n]]

Outcome(ns, exc) == [ns |-> ns, exc |-> exc]

\* One statement executed in namespace ns; vf is what the version file
\* defines (read by the exec statement only).
ExecStatement(st, ns, vf) ==
  IF ~(Uses(st) \subseteq DOMAIN ns) THEN Outcome(ns, "NameError")
  ELSE IF st.kind = "exec"
    THEN Outcome([n \in DOMAIN ns \cup DOMAIN vf |->
                    IF n \in DOMAIN vf THEN vf[n] ELSE ns[n]], "")
  ELSE IF st.kind = "call" THEN Outcome(ns, "")
  ELSE IF st.kind = "format"
    THEN LET r == PyFormat(ItemOf(st.parts[1], ns),
                           [i \in 1..(Len(st.parts) - 1) |-> ItemOf(st.parts[i + 1], ns)])
         IN IF r.exc # "" THEN Outcome(ns, r.exc)
            ELSE Outcome(Bind(ns, st.target, <<r.val>>), "")
  ELSE Outcome(Bind(ns, st.target,
                    [i \in 1..Len(st.parts) |-> ItemOf(st.parts[i], ns)]), "")

InitConf ==
  /\ conf_pc = 1
  /\ conf_ns = NoFile
  /\ conf_exc = ""

\* The documentation tool evaluates the next statement of conf.py; an
\* exception ends the evaluation.
ExecStmt ==
  /\ conf_exc = ""
  /\ conf_pc <= Len(Stmts)
  /\ \E vf \in (IF Stmts[conf_pc].kind = "exec" THEN VersionFiles ELSE {NoFile}) :
       LET out == ExecStatement(Stmts[conf_pc], conf_ns, vf)
       IN /\ conf_ns' = out.ns
          /\ conf_exc' = out.exc
          /\ conf_pc' = IF out.exc = "" THEN conf_pc + 1 ELSE conf_pc
  /\ UNCHANGED linkvars

Init == InitLink /\ InitConf

Next ==
  \/ GetDefaultModelParameters
  \/ GetDefaultModelData
  \/ MutatePar
  \/ MutateData
  \/ Request
  \/ CallModel
  \/ GetMdVar
  \/ Release

\* The adapter driven by the framework.
Spec == Init /\ [][Next]_vars

NextConf == ExecStmt

\* conf.py evaluated by the documentation tool.
SpecConf == Init /\ [][NextConf]_vars

\* ------------------------------------------------------------------------
\* Properties.

NumVals(list) == [i \in 1..Len(list) |-> list[i].v]

Abs(x) == IF x < 0 THEN -x ELSE x

HasAB == {"A", "B"} \subseteq DOMAIN par_set

NumericCoordinates == \A i \in 1..Len(data_idx) : IsNumeric(data_idx[i])

\* Well-formed input: numeric A and B, numeric coordinates.
WellFormed ==
  HasAB /\ IsNumeric(par_set["A"]) /\ IsNumeric(par_set["B"]) /\ NumericCoordinates

\* C1: for numeric A, B and numeric coordinates (the empty list included)
\* call_model returns, in the order of data_idx, exactly A + B * data_idx[i];
\* coordinates [1, 2.5, -2] with A = 3, B = 1.5 give [4.5, 6.75, 0].
C1_CallModelLinear ==
  (op = "call_model" /\ WellFormed) =>
    /\ ret.kind = "value"
    /\ Len(ret.data) = Len(data_idx)
    /\ \A i \in 1..Len(data_idx) :
         ret.data[i] * Scale = par_set["A"].v * Scale + par_set["B"].v * data_idx[i].v
    /\ (/\ par_set["A"].v = 3 * Scale
        /\ par_set["B"].v = 15000
        /\ NumVals(data_idx) = <<1 * Scale, 25000, -2 * Scale>>)
       => ret.data = <<45000, 67500, 0>>

C1_Witness ==
  /\ op = "call_model"
  /\ HasAB
  /\ par_set["A"] = IntN(3)
  /\ par_set["B"] = Flt(15000)
  /\ data_idx = <<IntN(1), Flt(25000), IntN(-2)>>
  /\ ret.kind = "value"
  /\ ret.data = <<45000, 67500, 0>>

\* C2: for numeric coordinates, integer-valued or fractional, get_md_var
\* returns one element per coordinate, each equal to 1e-4, whatever emul_i
\* and par_set are.
C2_VarianceConstant ==
  (op = "get_md_var" /\ NumericCoordinates) =>
    /\ ret.kind = "value"
    /\ Len(ret.data) = Len(data_idx)
    /\ \A i \in 1..Len(data_idx) : ret.data[i] = 1
    /\ \A e2 \in EmulIs : get_md_var(self, e2, par_set, data_idx).ret = ret
    /\ \A ps2 \in RequestParSets :
         get_md_var(self, emul_i, ps2, data_idx).ret = ret

C2_Witness ==
  /\ op = "get_md_var"
  /\ data_idx = <<IntN(1), IntN(-2)>>
  /\ ret.kind = "value"
  /\ ret.data = <<1, 1>>

\* C3: whatever ran before, the mapping get_default_model_parameters returns
\* has lower <= estimate <= upper in every entry.
C3_BoundsOrdered ==
  op = "get_default_model_parameters" =>
    \A i \in 1..Len(held_par) :
      /\ held_par[i].v[1].v <= held_par[i].v[3].v
      /\ held_par[i].v[3].v <= held_par[i].v[2].v

C3_Witness ==
  /\ op = "get_default_model_parameters"
  /\ Len(held_par) = 2
  /\ held_data # <<>>

\* C4: whatever ran before, the mapping get_default_model_data returns has
\* an uncertainty >= 0 in every entry.
C4_UncertaintyNonNegative ==
  op = "get_default_model_data" =>
    \A i \in 1..Len(held_data) : held_data[i].v[2].v >= 0

C4_Witness ==
  /\ op = "get_default_model_data"
  /\ Len(held_data) = 3
  /\ held_par # <<>>

\* C5: every call of get_default_model_parameters returns exactly
\* A -> (-10, 10, 3), B -> (0, 5, 1.5) and every call of
\* get_default_model_data exactly 1 -> (4.5, 0.1), 2.5 -> (6.8, 0.1),
\* -2 -> (0, 0.1), also after the caller wrote into a mapping it got earlier.
C5_DefaultsFixed ==
  /\ op = "get_default_model_parameters" =>
       /\ Len(held_par) = 2
       /\ held_par[1].k = "A"
       /\ NumVals(held_par[1].v) = <<-10 * Scale, 10 * Scale, 3 * Scale>>
       /\ held_par[2].k = "B"
       /\ NumVals(held_par[2].v) = <<0, 5 * Scale, 15000>>
  /\ op = "get_default_model_data" =>
       /\ Len(held_data) = 3
       /\ held_data[1].k.v = 1 * Scale
       /\ NumVals(held_data[1].v) = <<45000, 1000>>
       /\ held_data[2].k.v = 25000
       /\ NumVals(held_data[2].v) = <<68000, 1000>>
       /\ held_data[3].k.v = -2 * Scale
       /\ NumVals(held_data[3].v) = <<0, 1000>>

\* The caller holds a data mapping it has written into, and has just been
\* handed the parameters.
C5_Witness ==
  /\ op = "get_default_model_parameters"
  /\ held_data # <<>>
  /\ held_data[1].v[2].v < 0
  /\ NumVals(held_par[1].v) = <<-10 * Scale, 10 * Scale, 3 * Scale>>

\* C6: a call of call_model or get_md_var leaves par_set, data_idx, the
\* adapter and everything else the caller holds unchanged; calling again on
\* the same arguments gives the same result, and the result is the same for
\* every state of the adapter.
C6_Pure ==
  [][op' \in {"call_model", "get_md_var"} =>
       /\ UNCHANGED <<self, req, emul_i, par_set, data_idx, held_par, held_data>>
       /\ (op' = op => ret' = ret)
       /\ \A s2 \in SelfStates :
            ret' = IF op' = "call_model"
                   THEN call_model(s2, emul_i, par_set, data_idx).ret
                   ELSE get_md_var(s2, emul_i, par_set, data_idx).ret]_vars

C6_Witness ==
  /\ op = "call_model"
  /\ ret.kind = "value"
  /\ Len(data_idx) >= 2
  /\ NumericCoordinates
  /\ held_par # <<>>

\* C7 as stated: well-formed input never ends in an error, and every
\* malformed input (a non-numeric coordinate or parameter value, or a
\* par_set lacking A or B) ends in a type error.
C7_OnlyTypeErrors ==
  op = "call_model" =>
    /\ WellFormed => ret.kind = "value"
    /\ ~WellFormed => ret = Raise("TypeError")

\* C7 as amended: well-formed input never ends in an error; a par_set
\* lacking A or B ends in a KeyError, whatever else is malformed; with A and
\* B present, a string coordinate or a string parameter value ends in a
\* TypeError; an error is the call's whole outcome, no value is returned.
C7_ErrorOutcomes ==
  op = "call_model" =>
    /\ WellFormed => ret.kind = "value"
    /\ ~HasAB => ret = Raise("KeyError")
    /\ (HasAB /\ ~WellFormed) => ret = Raise("TypeError")
    /\ ret.kind = "raise" => ret.data = <<>> /\ ret.dtype = ""

C7_Witness ==
  /\ op = "call_model"
  /\ "A" \notin DOMAIN par_set
  /\ \E i \in 1..Len(data_idx) : ~IsNumeric(data_idx[i])
  /\ ret = Raise("KeyError")

\* The parameter assignments that agree with ps on A and B: ps without its
\* other entries, and ps with an entry C of any value.
SameAB(ps) ==
  {[n \in (DOMAIN ps \cap {"A", "B"}) \cup D |-> IF n = "C" THEN c ELSE ps[n]] :
     D \in SUBSET {"C"}, c \in CValues \cup {StrV}}

\* C8: the outcome of call_model is the same for every iteration index, and
\* for every par_set that agrees on A and B (entries other than A and B do
\* not count).
C8_IterationUnused ==
  op = "call_model" =>
    /\ \A e2 \in EmulIs : call_model(self, e2, par_set, data_idx).ret = ret
    /\ \A ps2 \in SameAB(par_set) :
         call_model(self, emul_i, ps2, data_idx).ret = ret

C8_Witness ==
  /\ op = "call_model"
  /\ emul_i = 2
  /\ "C" \in DOMAIN par_set
  /\ ret.kind = "value"
  /\ Len(ret.data) >= 1

\* Every statement of conf.py has been executed.
ConfDone == conf_pc > Len(Stmts)

\* C9: conf.py, given a version file that defines prism_version, evaluates
\* to its end without raising; html_title is the title formatted from
\* project and release, and the LaTeX, manual-page and Texinfo entries
\* carry it.
C9_ConfEvaluates ==
  "prism_version" \in DOMAIN conf_ns =>
    /\ conf_exc = ""
    /\ ConfDone =>
         /\ {"html_title", "latex_documents", "man_pages", "texinfo_documents"}
              \subseteq DOMAIN conf_ns
         /\ conf_ns["html_title"][1][1] = conf_ns["project"][1][1]
         /\ conf_ns["latex_documents"][3] = conf_ns["html_title"][1]
         /\ conf_ns["man_pages"][3] = conf_ns["html_title"][1]
         /\ conf_ns["texinfo_documents"][3] = conf_ns["html_title"][1]

\* C10: with A and B at the default estimates, call_model at a coordinate
\* that is a key of the default data is within that entry's uncertainty of
\* its observed value; both estimates lie inside their bounds.
C10_DefaultsConsistent ==
  LET pd == get_default_model_parameters(self)
      dd == get_default_model_data(self)
  IN /\ \A i \in 1..Len(pd) :
          pd[i].v[1].v <= pd[i].v[3].v /\ pd[i].v[3].v <= pd[i].v[2].v
     /\ (/\ op = "call_model"
         /\ HasAB
         /\ \A i \in 1..Len(pd) : par_set[pd[i].k] = pd[i].v[3]
         /\ ret.kind = "value")
        => \A i \in 1..Len(data_idx), j \in 1..Len(dd) :
             data_idx[i] = dd[j].k =>
               Abs(ret.data[i] - dd[j].v[1].v) <= dd[j].v[2].v

C10_Witness ==
  /\ op = "call_model"
  /\ HasAB
  /\ par_set["A"] = get_default_model_parameters(self)[1].v[3]
  /\ par_set["B"] = get_default_model_parameters(self)[2].v[3]
  /\ data_idx = Keys(get_default_model_data(self))
  /\ ret.kind = "value"

====
